---- MODULE Spec2Model ----
(***************************************************************************)
(* The delayed-upload scheduler of red-clipping:                           *)
(*   src/src/upload/upload_scheduler.py  (UploadScheduler)                 *)
(*   src/src/utils/state_manager.py      (StateManager)                    *)
(*                                                                         *)
(* Time is counted in ticks of 10 seconds (the hard-coded grace of         *)
(* schedule_upload); the configured delays are given in ticks.  All calls  *)
(* made at one model instant fall into the same clock second, so           *)
(* int(scheduled_time.timestamp()) of the job id is the tick itself.       *)
(* isoformat()/fromisoformat() round-trip a datetime without loss, so a    *)
(* time kept as a string in a task dict is the same integer.               *)
(***************************************************************************)
EXTENDS Integers, Sequences, FiniteSets, TLC

\* ---------------------------------------------------------------- bounds
MaxTime == 3
MaxTasks == 2
MaxRestarts == 1
MaxStops == 1
MaxBatch == 3
MaxHistory == 1
MaxRecords == 2
ExecutionTimeout == 1
StopGrace == 1

\* ------------------------------------------------- program constants
Grace == 1
MinDelay == 3
StaggerDelay == 2
MaxRetryAttempts == 2
RetryDelay == 1

Clips == {"a", "b"}
Platforms == {"p1", "p2"}
\* The uploads callers ask for: one clip for two platforms, two clips for
\* one platform.
Uploads == {<<"a", "p1">>, <<"b", "p1">>, <<"a", "p2">>}
NoTime == 0 - 1
\* A task dict without clip_path (upload_task.get('clip_path') is None).
NoClip == "<None>"
Outcomes == {"ok", "fail", "raise"}

VARIABLES
    now,            \* datetime.now(), in ticks
    tasks,          \* the upload_task dicts alive in memory, by object identity
    queueFile,      \* cache/upload_queue.json
    historyFile,    \* cache/upload_history.json
    jobs,           \* the jobs held by the BackgroundScheduler
    scheduled_jobs, \* UploadScheduler.scheduled_jobs
    running,        \* BackgroundScheduler.running
    workers,        \* the jobs being executed by the scheduler's thread pool
    meta,           \* history variable: what happened to each task so far
    epoch,          \* history variable: number of process restarts so far
    stops,          \* history variable: number of shutdown() calls so far
    paced,          \* history variable: per platform, the time of a success
                    \* after which no job of the platform was dispatched yet
    local           \* what each pool thread inside add_to_history has loaded

vars == <<now, tasks, queueFile, historyFile, jobs, scheduled_jobs, running,
          workers, meta, epoch, stops, paced, local>>

TaskIds == 1..Len(tasks)

\* A JSON state file: readable with its content, or cut short by an
\* interrupted write (json.load then raises JSONDecodeError).
File(data) == [ok |-> TRUE, data |-> data]
TornFile == [ok |-> FALSE, data |-> <<>>]

\* ------------------------------------------------------------ StateManager

Raised(file) == [file |-> file, raised |-> TRUE]
Saved(data) == [file |-> File(data), raised |-> FALSE]

\* add_to_history: load, append, save.  An unreadable file loads as {} and
\* history['uploads'] raises KeyError.
AddToHistory(file, record) ==
    IF ~file.ok THEN Raised(file) ELSE Saved(Append(file.data, record))

\* add_to_queue: load, append, save.
AddToQueue(file, task) ==
    IF ~file.ok THEN Raised(file) ELSE Saved(Append(file.data, task))

SameUpload(t, clip, platform) == t.clip = clip /\ t.platform = platform

RemoveMatching(data, clip, platform) ==
    LET Keep(t) == ~SameUpload(t, clip, platform) IN SelectSeq(data, Keep)

\* remove_from_queue: drops every entry with this clip_path and platform.
RemoveFromQueue(file, clip, platform) ==
    IF ~file.ok THEN Raised(file) ELSE Saved(RemoveMatching(file.data, clip, platform))

UpdateFirst(data, clip, platform, updates) ==
    LET hits == {i \in 1..Len(data) : SameUpload(data[i], clip, platform)}
    IN  IF hits = {} THEN data
        ELSE LET i == CHOOSE k \in hits : \A m \in hits : k <= m
             IN  [data EXCEPT ![i] = updates]

\* update_queue_task: the first entry with this clip_path and platform takes
\* every field of the task dict.
UpdateQueueTask(file, clip, platform, updates) ==
    IF ~file.ok THEN Raised(file) ELSE Saved(UpdateFirst(file.data, clip, platform, updates))

\* An argument left out (None).
None == "<None>"
NoLimit == 0 - 1

\* Mutant: the queue is listed by scheduled_time alone.
ComesBeforeByTime(a, b) == a.scheduled_time < b.scheduled_time

\* The sort key of get_queue: (-priority, scheduled_time).
ComesBefore(a, b) ==
    \/ a.priority > b.priority
    \/ a.priority = b.priority /\ a.scheduled_time < b.scheduled_time

\* tasks.sort of get_queue; entries of equal key keep their order.
SortQueue(s) ==
    LET Rank(i) == 1 + Cardinality({j \in 1..Len(s) :
                          \/ ComesBefore(s[j], s[i])
                          \/ ~ComesBefore(s[i], s[j]) /\ j < i})
    IN  [k \in 1..Len(s) |-> s[CHOOSE i \in 1..Len(s) : Rank(i) = k]]

\* get_queue(platform): an unreadable file lists as empty; "if platform:"
\* skips the filter for None.
GetQueue(file, platform) ==
    LET OfPlatform(t) == platform # None => t.platform = platform
    IN  SortQueue(SelectSeq(IF file.ok THEN file.data ELSE <<>>, OfPlatform))

\* uploads.sort(key=upload_time, reverse=True): most recent first; records
\* of equal upload_time keep their order (the sort is stable).
SortRecent(s) ==
    LET Rank(i) == 1 + Cardinality({j \in 1..Len(s) :
                          \/ s[j].upload_time > s[i].upload_time
                          \/ s[j].upload_time = s[i].upload_time /\ j < i})
    IN  [k \in 1..Len(s) |-> s[CHOOSE i \in 1..Len(s) : Rank(i) = k]]

\* "if limit:" is false for None and for 0.
LimitGiven(limit) == limit # NoLimit /\ limit # 0

\* get_history(platform, status, limit): an unreadable file reads as no
\* records; "if platform:" and "if status:" skip a filter that is None.
Filtered(file, platform, status) ==
    LET Match(r) == /\ platform # None => r.platform = platform
                    /\ status # None => r.status = status
    IN  SelectSeq(IF file.ok THEN file.data ELSE <<>>, Match)

Truncated(uploads, limit) ==
    IF LimitGiven(limit) /\ limit < Len(uploads)
    THEN SubSeq(uploads, 1, limit) ELSE uploads

GetHistory(file, platform, status, limit) ==
    Truncated(SortRecent(Filtered(file, platform, status)), limit)

\* get_last_upload_time: upload_time of the most recent success, or NoTime.
GetLastUploadTime(file, platform) ==
    LET hist == GetHistory(file, platform, "success", 1)
    IN  IF hist = <<>> THEN NoTime ELSE hist[1].upload_time

\* --------------------------------------------------------- UploadScheduler

\* _get_next_upload_time
GetNextUploadTime(file, platform, t) ==
    LET last == GetLastUploadTime(file, platform)
    IN  IF last # NoTime /\ last + MinDelay > t THEN last + MinDelay
        ELSE t + Grace

JobId(platform, clip, time) == <<platform, clip, time>>

\* The state the scheduler's methods work on.
State == [tasks |-> tasks, queueFile |-> queueFile, historyFile |-> historyFile,
          jobs |-> jobs, scheduled_jobs |-> scheduled_jobs]

Throw(st) == [st |-> st, raised |-> TRUE]
Return(st) == [st |-> st, raised |-> FALSE]

\* The entry written to the queue file: a copy of the task dict, with the
\* priority 0 that add_to_queue gives a task that has none.
QueueEntry(task, tid) == [clip |-> task.clip, platform |-> task.platform,
                          scheduled_time |-> task.scheduled_time,
                          retry_count |-> task.retry_count, tid |-> tid,
                          priority |-> 0]

\* Mutant: a scheduled time that has passed is kept.
FutureTimeAsGiven(time, t) == time

\* "Ensure scheduled time is in the future": a time that is not after the
\* clock is replaced by the clock plus ten seconds.
FutureTime(time, t) == IF time <= t THEN t + Grace ELSE time

\* schedule_upload(upload_task, upload_function) at time t.
ScheduleUpload(st, tid, t) ==
    LET task == st.tasks[tid]
        given == task.scheduled_time # NoTime
        time1 == IF given THEN task.scheduled_time
                 ELSE GetNextUploadTime(st.historyFile, task.platform, t)
        time2 == FutureTime(time1, t)
        task2 == [task EXCEPT !.scheduled_time =
                     IF ~given \/ time1 <= t THEN time2 ELSE @]
        job_id == JobId(task.platform, task.clip, time2)
        added == AddToQueue(st.queueFile, QueueEntry(task2, tid))
        st1 == [st EXCEPT !.tasks[tid] = task2, !.queueFile = added.file]
    IN  IF task.clip = NoClip
        THEN \* None has no replace(): AttributeError while building job_id
             Throw([st EXCEPT !.tasks[tid] = task2])
        ELSE IF added.raised THEN Throw(st1)
        ELSE Return([st1 EXCEPT
                !.jobs = {j \in @ : j.id # job_id}
                            \cup {[id |-> job_id, tid |-> tid, run_date |-> time2]},
                !.scheduled_jobs = {j \in @ : j.id # job_id}
                            \cup {[id |-> job_id, tid |-> tid, scheduled_time |-> time2]}])

\* Mutant: the record carries the number of the attempt.
HistoryRecordWithAttempt(task, tid, status, t) ==
    [clip |-> task.clip, platform |-> task.platform, status |-> status,
     upload_time |-> t, tid |-> tid, attempt |-> task.retry_count + 1]

\* The record _execute_upload and _handle_failed_upload pass to
\* add_to_history (video_path and metadata are copied from the task and play
\* no part).
HistoryRecord(task, tid, status, t) ==
    [clip |-> task.clip, platform |-> task.platform, status |-> status,
     upload_time |-> t, tid |-> tid]

\* Mutant: the retry test lets one retry too many through.
RetryAllowedOffByOne(retry_count) == retry_count <= MaxRetryAttempts

\* Mutant: no failure is retried.
RetryAllowedNever(retry_count) == FALSE

RetryAllowed(retry_count) == retry_count < MaxRetryAttempts

\* _handle_failed_upload at time t.
HandleFailedUpload(st, tid, t) ==
    LET task == st.tasks[tid]
    IN  IF RetryAllowed(task.retry_count)
        THEN LET task2 == [task EXCEPT !.retry_count = @ + 1,
                                       !.scheduled_time = t + RetryDelay]
                 upd == UpdateQueueTask(st.queueFile, task.clip, task.platform,
                                        QueueEntry(task2, tid))
                 st1 == [st EXCEPT !.tasks[tid] = task2, !.queueFile = upd.file]
             IN  IF upd.raised THEN Throw(st1) ELSE ScheduleUpload(st1, tid, t)
        ELSE LET app == AddToHistory(st.historyFile,
                                     HistoryRecord(task, tid, "failed", t))
                 st1 == [st EXCEPT !.historyFile = app.file]
                 rem == RemoveFromQueue(st1.queueFile, task.clip, task.platform)
             IN  IF app.raised THEN Throw(st1)
                 ELSE IF rem.raised THEN Throw(st1)
                 ELSE Return([st1 EXCEPT !.queueFile = rem.file])

\* Mutant: the except clause logs the exception and leaves it at that.
OnExceptionSwallowed(st, tid, t) == Return(st)

\* The except clause of _execute_upload.
OnException(st, tid, t) == HandleFailedUpload(st, tid, t)

\* _execute_upload from the return of upload_function on, at time t.  The
\* call of _handle_failed_upload for a returned failure is inside the try
\* block: an exception it raises lands in the except clause as well.
ExecuteUpload(st, tid, outcome, t) ==
    LET task == st.tasks[tid]
    IN  IF outcome = "ok"
        THEN LET app == AddToHistory(st.historyFile,
                                     HistoryRecord(task, tid, "success", t))
                 st1 == [st EXCEPT !.historyFile = app.file]
                 rem == RemoveFromQueue(st1.queueFile, task.clip, task.platform)
             IN  IF app.raised THEN OnException(st, tid, t)
                 ELSE IF rem.raised THEN OnException(st1, tid, t)
                 ELSE Return([st1 EXCEPT !.queueFile = rem.file])
        ELSE IF outcome = "fail"
        THEN LET res == HandleFailedUpload(st, tid, t)
             IN  IF res.raised THEN OnException(res.st, tid, t) ELSE res
        ELSE OnException(st, tid, t)

\* The platforms upload_functions has a function for, and the
\* stagger_uploads setting.
UploadFunctions == Platforms
StaggerUploads == TRUE

\* Mutant: every staggered job gets the same offset.
StaggerOffsetFlat(i) == StaggerDelay

\* delay_minutes of job i of a batch.
StaggerOffset(i) == i * StaggerDelay

\* Mutant: the staggered time is not raised to the next available time.
NotBeforeIgnored(scheduled_time, next_available) == scheduled_time

\* "Ensure minimum delay from last upload".
NotBefore(scheduled_time, next_available) ==
    IF scheduled_time < next_available THEN next_available ELSE scheduled_time

\* schedule_batch_upload from job i on: the tasks are st.tasks[first + i] for
\* i in 0..n-1, current_time is t.  An exception of schedule_upload ends the
\* loop.
RECURSIVE BatchLoop(_, _, _, _, _)
BatchLoop(st, first, n, i, t) ==
    IF i >= n THEN Return(st)
    ELSE LET tid == first + i
             task == st.tasks[tid]
         IN  IF task.platform \notin UploadFunctions
             THEN BatchLoop(st, first, n, i + 1, t)
             ELSE LET staggered == NotBefore(t + StaggerOffset(i),
                              GetNextUploadTime(st.historyFile, task.platform, t))
                      st1 == IF StaggerUploads /\ i > 0
                             THEN [st EXCEPT !.tasks[tid].scheduled_time = staggered]
                             ELSE st
                      res == ScheduleUpload(st1, tid, t)
                  IN  IF res.raised THEN res
                      ELSE BatchLoop(res.st, first, n, i + 1, t)

\* schedule_batch_upload(upload_tasks, upload_functions) at time t.
ScheduleBatchUpload(st, first, n, t) == BatchLoop(st, first, n, 0, t)

\* Mutant: remove_job does not mind a job the scheduler does not hold.
CancellableKnown(known, held) == known # {}

\* The id is in scheduled_jobs and remove_job finds the job.
Cancellable(known, held) == known # {} /\ held # {}

\* cancel_upload(job_id): remove_job raises JobLookupError for a job the
\* scheduler no longer holds; every exception is caught and gives False.
CancelUpload(st, job_id) ==
    LET known == {j \in st.scheduled_jobs : j.id = job_id}
        held == {j \in st.jobs : j.id = job_id}
    IN  IF ~Cancellable(known, held) THEN [st |-> st, result |-> FALSE]
        ELSE LET entry == CHOOSE j \in known : TRUE
                 task == st.tasks[entry.tid]
                 st1 == [st EXCEPT !.jobs = @ \ held]
                 rem == RemoveFromQueue(st1.queueFile, task.clip, task.platform)
             IN  IF rem.raised THEN [st |-> st1, result |-> FALSE]
                 ELSE [st |-> [st1 EXCEPT !.queueFile = rem.file,
                                          !.scheduled_jobs = @ \ known],
                       result |-> TRUE]

\* ----------------------------------------------------------------- actions

Install(st) ==
    /\ tasks' = st.tasks
    /\ queueFile' = st.queueFile
    /\ historyFile' = st.historyFile
    /\ jobs' = st.jobs
    /\ scheduled_jobs' = st.scheduled_jobs

NewMeta == [calls |-> 0, cancelled |-> FALSE, accepted |-> TRUE,
            while_stopped |-> ~running, epoch |-> epoch, stops |-> stops,
            index |-> 0]

\* The records of a history file that belong to one task.
RecordsOf(file, tid) ==
    IF file.ok THEN {i \in 1..Len(file.data) : file.data[i].tid = tid} ELSE {}

Succeeded(file, tid) ==
    \E i \in RecordsOf(file, tid) : file.data[i].status = "success"

\* The pacing history variable is kept only by the specification that
\* starts it at NoTime.
Untracked == 0 - 2
Track(platform, value) ==
    IF platform \notin DOMAIN paced \/ paced[platform] = Untracked THEN paced
    ELSE [paced EXCEPT ![platform] = value]

Init ==
    /\ now = 0
    /\ tasks = <<>>
    /\ queueFile = File(<<>>)
    /\ historyFile = File(<<>>)
    /\ jobs = {}
    /\ scheduled_jobs = {}
    /\ running = FALSE
    /\ workers = {}
    /\ meta = <<>>
    /\ epoch = 0
    /\ stops = 0
    /\ paced = [p \in Platforms |-> Untracked]
    /\ local = {}

\* A caller builds a task dict and calls schedule_upload; scheduled_time is
\* absent, or a time that is not in the future, or a time in the future.
Submit(clip, platform, time) ==
    /\ Len(tasks) < MaxTasks
    /\ LET tid == Len(tasks) + 1
           task == [clip |-> clip, platform |-> platform,
                    scheduled_time |-> time, retry_count |-> 0]
           st0 == [State EXCEPT !.tasks = Append(tasks, task)]
           res == ScheduleUpload(st0, tid, now)
       IN  /\ Install(res.st)
           /\ meta' = Append(meta, [NewMeta EXCEPT !.accepted = ~res.raised])
    /\ UNCHANGED <<now, running, workers, epoch, stops, paced, local>>

\* A caller builds a list of task dicts, none with a scheduled_time, and
\* calls schedule_batch_upload.
SubmitBatch(batch) ==
    /\ LET first == Len(tasks) + 1
           new == [i \in 1..Len(batch) |->
                      [clip |-> batch[i][1], platform |-> batch[i][2],
                       scheduled_time |-> NoTime, retry_count |-> 0]]
           st0 == [State EXCEPT !.tasks = tasks \o new]
           res == ScheduleBatchUpload(st0, first, Len(batch), now)
       IN  /\ Install(res.st)
           /\ meta' = meta \o [i \in 1..Len(batch) |->
                  [NewMeta EXCEPT !.index = i - 1,
                                  !.accepted = \E j \in res.st.jobs : j.tid = first + i - 1]]
    /\ UNCHANGED <<now, running, workers, epoch, stops, paced, local>>

\* A caller cancels a job by the id schedule_upload returned.
Cancel(job_id) ==
    LET res == CancelUpload(State, job_id)
        entry == CHOOSE j \in scheduled_jobs : j.id = job_id
    IN  /\ Install(res.st)
        /\ meta' = IF res.result THEN [meta EXCEPT ![entry.tid].cancelled = TRUE]
                   ELSE meta
        /\ UNCHANGED <<now, running, workers, epoch, stops, paced, local>>

\* start()
Start ==
    /\ ~running
    /\ running' = TRUE
    /\ UNCHANGED <<now, tasks, queueFile, historyFile, jobs, scheduled_jobs,
                   workers, meta, epoch, stops, paced, local>>

\* shutdown(): the scheduler stops, waits for the pool threads to run to
\* their end (wait=True is the default), and its in-memory job store is
\* emptied.
Shutdown ==
    /\ running
    /\ workers = {}
    /\ stops < MaxStops
    /\ running' = FALSE
    /\ jobs' = {}
    /\ stops' = stops + 1
    /\ UNCHANGED <<now, tasks, queueFile, historyFile, scheduled_jobs,
                   workers, meta, epoch, paced, local>>

\* The process ends and a new one constructs StateManager and
\* UploadScheduler over the same state directory (__init__ of both).
Restart ==
    /\ epoch < MaxRestarts
    /\ epoch' = epoch + 1
    /\ jobs' = {}
    /\ scheduled_jobs' = {}
    /\ workers' = {}
    /\ running' = FALSE
    /\ local' = {}
    /\ UNCHANGED <<now, tasks, queueFile, historyFile, meta, stops, paced>>

\* The clock advances, as long as something can still happen.  A call of
\* upload_function returns within the tick in which it was made.
Elapse ==
    /\ now < MaxTime
    /\ workers = {}
    /\ Len(tasks) < MaxTasks \/ jobs # {} \/ workers # {}
    /\ now' = now + 1
    /\ UNCHANGED <<tasks, queueFile, historyFile, jobs, scheduled_jobs,
                   running, workers, meta, epoch, stops, paced, local>>

\* Time passes while the scheduler runs.  The scheduler wakes up at each run
\* date, so time does not pass a due job before the scheduler has handled it.
Tick ==
    /\ running
    /\ \A j \in jobs : j.run_date > now
    /\ Elapse

\* Time passes while the scheduler is stopped.
TickStopped ==
    /\ ~running
    /\ Elapse

\* Mutant: the scheduler fires a job whenever it likes.
IsDueAlways(j) == TRUE

\* DateTrigger(run_date): the job fires when its run date has come.
IsDue(j) == j.run_date <= now

\* Mutant: a job that has fired stays in the store.
DispatchKeepsJob(j) ==
    /\ running
    /\ IsDue(j)
    /\ j.run_date = now
    /\ meta[j.tid].calls < MaxRetryAttempts + 1
    /\ workers' = workers \cup {j.tid}
    /\ meta' = [meta EXCEPT ![j.tid].calls = @ + 1]
    /\ UNCHANGED <<now, tasks, queueFile, historyFile, jobs, scheduled_jobs,
                   running, epoch, stops, paced, local>>

\* The running scheduler takes a due job out of its store (a date trigger
\* fires once).  A run date missed by more than misfire_grace_time (1 s) is
\* skipped; otherwise a pool thread enters _execute_upload and calls
\* upload_function.
Dispatch(j) ==
    /\ running
    /\ IsDue(j)
    /\ jobs' = jobs \ {j}
    /\ IF j.run_date < now
       THEN UNCHANGED <<workers, meta, paced>>
       ELSE /\ workers' = workers \cup {j.tid}
            /\ meta' = [meta EXCEPT ![j.tid].calls = @ + 1]
            /\ paced' = Track(tasks[j.tid].platform, NoTime)
    /\ UNCHANGED <<now, tasks, queueFile, historyFile, scheduled_jobs,
                   running, epoch, stops, local>>

\* upload_function returns or raises and _execute_upload runs to its end.
Complete(tid, outcome) ==
    /\ tid \in workers
    /\ LET res == ExecuteUpload(State, tid, outcome, now)
       IN  /\ Install(res.st)
           /\ paced' = IF Succeeded(res.st.historyFile, tid) /\ ~Succeeded(historyFile, tid)
                       THEN Track(tasks[tid].platform, now)
                       ELSE paced
    /\ workers' = workers \ {tid}
    /\ UNCHANGED <<now, running, meta, epoch, stops, local>>

SubmitTimes == {NoTime, now, now + StaggerDelay}

\* Clip and platform names are interchangeable in the code: the first task
\* is taken to be clip "a" for platform "p1".
UploadChoices == IF tasks = <<>> THEN {<<"a", "p1">>} ELSE Uploads

Next ==
    \/ \E u \in UploadChoices, t \in SubmitTimes : Submit(u[1], u[2], t)
    \/ \E j \in scheduled_jobs : Cancel(j.id)
    \/ Start
    \/ Tick
    \/ \E j \in jobs : Dispatch(j)
    \/ \E tid \in workers, o \in Outcomes : Complete(tid, o)

Spec == Init /\ [][Next]_vars

\* The scheduler with its life cycle: stop, and restart of the process.
NextLife == Next \/ TickStopped \/ Shutdown \/ Restart

SpecLife == Init /\ [][NextLife]_vars

\* The scheduler observed for pacing.
InitPace ==
    /\ now = 0
    /\ tasks = <<>>
    /\ queueFile = File(<<>>)
    /\ historyFile = File(<<>>)
    /\ jobs = {}
    /\ scheduled_jobs = {}
    /\ running = FALSE
    /\ workers = {}
    /\ meta = <<>>
    /\ epoch = 0
    /\ stops = 0
    /\ paced = [p \in Platforms |-> NoTime]
    /\ local = {}

SpecPace == InitPace /\ [][Next]_vars

\* The batch call on its own, from any clock reading and any short history.
BatchUploads == Uploads \cup {<<"a", "px">>}
Batches == UNION {[1..n -> BatchUploads] : n \in 1..MaxBatch}

OldRecords(t) == [clip : {"a"}, platform : Platforms, status : {"success", "failed"},
                  upload_time : 0..t, tid : {0}]
Histories(t) == UNION {[1..n -> OldRecords(t)] : n \in 0..MaxHistory}

InitBatch ==
    /\ now \in 0..MaxTime
    /\ tasks = <<>>
    /\ queueFile = File(<<>>)
    /\ historyFile \in {File(h) : h \in Histories(now)}
    /\ jobs = {}
    /\ scheduled_jobs = {}
    /\ running = FALSE
    /\ workers = {}
    /\ meta = <<>>
    /\ epoch = 0
    /\ stops = 0
    /\ paced = [p \in Platforms |-> Untracked]
    /\ local = {}

NextBatch == \E b \in Batches : tasks = <<>> /\ SubmitBatch(b)

SpecBatch == InitBatch /\ [][NextBatch]_vars

\* The process dies inside schedule_upload, in the _save_json call of
\* add_to_queue: before open(file_path, 'w'), after it (the file is cut to
\* nothing or to a part of the JSON text), or after json.dump is through.
\* The task dict and everything else in memory is gone with the process.
SavePoints == {"before", "truncated", "written"}

CrashInSave(clip, platform, time, point) ==
    /\ epoch < MaxRestarts
    /\ Len(tasks) < MaxTasks
    /\ queueFile.ok
    /\ LET tid == Len(tasks) + 1
           task == [clip |-> clip, platform |-> platform,
                    scheduled_time |-> time, retry_count |-> 0]
           st0 == [State EXCEPT !.tasks = Append(tasks, task)]
           res == ScheduleUpload(st0, tid, now)
       IN  queueFile' = CASE point = "before" -> queueFile
                          [] point = "truncated" -> TornFile
                          [] OTHER -> res.st.queueFile
    /\ epoch' = epoch + 1
    /\ jobs' = {}
    /\ scheduled_jobs' = {}
    /\ workers' = {}
    /\ local' = {}
    /\ running' = FALSE
    /\ UNCHANGED <<now, tasks, historyFile, meta, stops, paced>>

NextCrash ==
    \/ Next
    \/ \E u \in Uploads, t \in SubmitTimes, pt \in SavePoints :
          CrashInSave(u[1], u[2], t, pt)

SpecCrash == Init /\ [][NextCrash]_vars

\* The pool threads step by step.  upload_function returns or raises in a
\* pool thread.  A failure that is retried runs _handle_failed_upload to its
\* end; on the other paths the thread enters add_to_history and loads the
\* history file.
Loaded(tid) == \E l \in local : l.tid = tid

UploadReturns(tid, outcome) ==
    /\ tid \in workers
    /\ ~Loaded(tid)
    /\ IF outcome # "ok" /\ RetryAllowed(tasks[tid].retry_count)
       THEN /\ Install(ExecuteUpload(State, tid, outcome, now).st)
            /\ workers' = workers \ {tid}
            /\ UNCHANGED local
       ELSE /\ local' = local \cup {[tid |-> tid, outcome |-> outcome,
                                     loaded |-> historyFile]}
            /\ UNCHANGED <<tasks, queueFile, historyFile, jobs, scheduled_jobs,
                           workers>>
    /\ UNCHANGED <<now, running, meta, epoch, stops, paced>>

\* The thread appends its record to what it loaded, saves that over the
\* history file, and runs the rest of the handler (remove_from_queue).
SaveHistory(l) ==
    /\ l \in local
    /\ Install(ExecuteUpload([State EXCEPT !.historyFile = l.loaded],
                             l.tid, l.outcome, now).st)
    /\ workers' = workers \ {l.tid}
    /\ local' = local \ {l}
    /\ UNCHANGED <<now, running, meta, epoch, stops, paced>>

NextRace ==
    \/ \E u \in UploadChoices, t \in SubmitTimes : Submit(u[1], u[2], t)
    \/ \E j \in scheduled_jobs : Cancel(j.id)
    \/ Start
    \/ Tick
    \/ \E j \in jobs : Dispatch(j)
    \/ \E tid \in workers, o \in Outcomes : UploadReturns(tid, o)
    \/ \E l \in local : SaveHistory(l)

SpecRace == Init /\ [][NextRace]_vars

\* Callers that pass task dicts of any kind: a platform nobody knows, an
\* empty clip_path, no clip_path at all.
BadUploads == {<<"a", "px">>, <<"", "p1">>, <<NoClip, "p1">>}

NextInput ==
    \/ Next
    \/ \E u \in BadUploads, t \in SubmitTimes : Submit(u[1], u[2], t)

SpecInput == Init /\ [][NextInput]_vars

\* schedule_upload while the queue file cannot be written: open() or
\* json.dump raises inside _save_json, which logs the error and returns.
\* Nothing else in schedule_upload differs from a call whose save goes
\* through.  A failed open leaves the file as it was, a failed dump leaves
\* it cut short.
SaveFaults == {"open", "dump"}

SubmitSaveFails(clip, platform, time, fault) ==
    /\ Len(tasks) < MaxTasks
    /\ queueFile.ok
    /\ LET tid == Len(tasks) + 1
           task == [clip |-> clip, platform |-> platform,
                    scheduled_time |-> time, retry_count |-> 0]
           st0 == [State EXCEPT !.tasks = Append(tasks, task)]
           res == ScheduleUpload(st0, tid, now)
       IN  /\ Install([res.st EXCEPT !.queueFile =
                          IF fault = "open" THEN queueFile ELSE TornFile])
           /\ meta' = Append(meta, [NewMeta EXCEPT !.accepted = ~res.raised])
    /\ UNCHANGED <<now, running, workers, epoch, stops, paced, local>>

NextStorage ==
    \/ Next
    \/ \E u \in UploadChoices, t \in SubmitTimes, f \in SaveFaults :
          SubmitSaveFails(u[1], u[2], t, f)

SpecStorage == Init /\ [][NextStorage]_vars

\* Callers of add_to_history with records of their own, as the validation
\* script does: any platform, status and upload_time, in any order.
Records == [clip : {"a"}, platform : Platforms, status : {"success", "failed"},
            upload_time : 0..MaxTime, tid : {0}]

AppendRecord(r) ==
    /\ historyFile.ok
    /\ Len(historyFile.data) < MaxRecords
    /\ historyFile' = AddToHistory(historyFile, r).file
    /\ UNCHANGED <<now, tasks, queueFile, jobs, scheduled_jobs, running,
                   workers, meta, epoch, stops, paced, local>>

NextHistory == \E r \in Records : AppendRecord(r)

SpecHistory == Init /\ [][NextHistory]_vars

\* Callers of add_to_queue with task dicts of their own: any platform,
\* scheduled_time and priority, in any order.
Entries == [clip : {"a"}, platform : Platforms, scheduled_time : 0..MaxTime,
            retry_count : {0}, tid : {0}, priority : {0, 1}]

AddEntry(e) ==
    /\ queueFile.ok
    /\ Len(queueFile.data) < MaxRecords
    /\ queueFile' = AddToQueue(queueFile, e).file
    /\ UNCHANGED <<now, tasks, historyFile, jobs, scheduled_jobs, running,
                   workers, meta, epoch, stops, paced, local>>

NextQueue == \E e \in Entries : AddEntry(e)

SpecQueue == Init /\ [][NextQueue]_vars

\* upload_function takes its time: _execute_upload waits in the call, with
\* no timer beside it, while the clock goes on.
UploadHangs ==
    /\ workers # {}
    /\ now < MaxTime
    /\ running => \A j \in jobs : j.run_date > now
    /\ now' = now + 1
    /\ UNCHANGED <<tasks, queueFile, historyFile, jobs, scheduled_jobs,
                   running, workers, meta, epoch, stops, paced, local>>

\* shutdown() is called: the scheduler is marked stopped and the caller
\* waits in the executor's shutdown(wait=True) for the pool threads.
ShutdownEnter ==
    /\ running
    /\ stops < MaxStops
    /\ local = {}
    /\ running' = FALSE
    /\ local' = {[thread |-> "shutdown", since |-> now]}
    /\ UNCHANGED <<now, tasks, queueFile, historyFile, jobs, scheduled_jobs,
                   workers, meta, epoch, stops, paced>>

\* The pool threads have run to their end: the job store is emptied and
\* shutdown() returns.
ShutdownReturn ==
    /\ local # {}
    /\ workers = {}
    /\ jobs' = {}
    /\ stops' = stops + 1
    /\ local' = {}
    /\ UNCHANGED <<now, tasks, queueFile, historyFile, scheduled_jobs,
                   running, workers, meta, epoch, paced>>

\* upload_function returns while shutdown() waits.  Only the paths that do
\* not call the scheduler are followed (success, and a failure that is not
\* retried).
CompleteInShutdown(tid, outcome) ==
    /\ local # {}
    /\ outcome = "ok" \/ ~RetryAllowed(tasks[tid].retry_count)
    /\ Complete(tid, outcome)

NextHang ==
    \/ local = {} /\ Next
    \/ UploadHangs
    \/ ShutdownEnter
    \/ ShutdownReturn
    \/ \E tid \in workers, o \in Outcomes : CompleteInShutdown(tid, o)

SpecHang == Init /\ [][NextHang]_vars

\* add_to_queue, remove_from_queue and update_queue_task load the queue
\* file, change the copy and save it, with no lock, while the caller's
\* thread and the pool threads all use the one StateManager.  The worker's
\* handler is kept in one step; the caller's schedule_upload is split where
\* add_to_queue has loaded the file (the history was read before that, for
\* the upload time).
SubmitLoads(clip, platform, time) ==
    /\ Len(tasks) < MaxTasks
    /\ local = {}
    /\ local' = {[thread |-> "schedule_upload", clip |-> clip,
                  platform |-> platform, time |-> time, loaded |-> queueFile,
                  history |-> historyFile]}
    /\ UNCHANGED <<now, tasks, queueFile, historyFile, jobs, scheduled_jobs,
                   running, workers, meta, epoch, stops, paced>>

\* The caller appends its task to the copy it loaded, saves the copy over
\* the file, and schedule_upload runs to its end.
SubmitSaves(l) ==
    /\ l \in local
    /\ LET tid == Len(tasks) + 1
           task == [clip |-> l.clip, platform |-> l.platform,
                    scheduled_time |-> l.time, retry_count |-> 0]
           st0 == [State EXCEPT !.tasks = Append(tasks, task),
                                !.queueFile = l.loaded,
                                !.historyFile = l.history]
           res == ScheduleUpload(st0, tid, now)
       IN  /\ Install([res.st EXCEPT !.historyFile = historyFile])
           /\ meta' = Append(meta, [NewMeta EXCEPT !.accepted = ~res.raised])
    /\ local' = {}
    /\ UNCHANGED <<now, running, workers, epoch, stops, paced>>

NextQueueRace ==
    \/ \E u \in UploadChoices, t \in SubmitTimes : SubmitLoads(u[1], u[2], t)
    \/ \E l \in local : SubmitSaves(l)
    \/ \E j \in scheduled_jobs : Cancel(j.id)
    \/ Start
    \/ local = {} /\ Tick
    \/ \E j \in jobs : Dispatch(j)
    \/ \E tid \in workers, o \in Outcomes : Complete(tid, o)

SpecQueueRace == Init /\ [][NextQueueRace]_vars

\* _execute_upload while the history file cannot be written: json.dump
\* raises inside the _save_json call of add_to_history and leaves the file
\* cut short; _save_json logs the error and returns, and the handler goes on
\* as after a save that went through.
CompleteSaveFails(tid, outcome) ==
    /\ tid \in workers
    /\ historyFile.ok
    /\ outcome = "ok" \/ ~RetryAllowed(tasks[tid].retry_count)
    /\ Install([ExecuteUpload(State, tid, outcome, now).st
                   EXCEPT !.historyFile = TornFile])
    /\ workers' = workers \ {tid}
    /\ UNCHANGED <<now, running, meta, epoch, stops, paced, local>>

NextRecord ==
    \/ Next
    \/ \E tid \in workers, o \in Outcomes : CompleteSaveFails(tid, o)

SpecRecord == Init /\ [][NextRecord]_vars

\* ------------------------------------------------------------------ claims

Pending(tid) ==
    \E i \in 1..Len(GetQueue(queueFile, None)) :
        GetQueue(queueFile, None)[i].tid = tid

HasJob(tid) == \E j \in jobs : j.tid = tid

Failed(file, tid) ==
    \E i \in RecordsOf(file, tid) : file.data[i].status = "failed"

\* C1 (as stated): the number of calls of upload_function made for a job
\* never exceeds max_retry_attempts.
C1_CallsWithinMaxAttempts ==
    \A t \in TaskIds : meta[t].calls <= MaxRetryAttempts

\* C1 (amended): retry_count never exceeds max_retry_attempts and the number
\* of calls of upload_function made for a job never exceeds
\* max_retry_attempts + 1 (the first attempt and max_retry_attempts retries).
C1_RetriesWithinMax ==
    \A t \in TaskIds :
        /\ tasks[t].retry_count <= MaxRetryAttempts
        /\ meta[t].calls <= MaxRetryAttempts + 1

\* A job that used its first attempt and all its retries and failed for good.
C1_Witness ==
    \E t \in TaskIds :
        /\ meta[t].calls = MaxRetryAttempts + 1
        /\ tasks[t].retry_count = MaxRetryAttempts
        /\ Failed(historyFile, t)

Max(a, b) == IF a >= b THEN a ELSE b

Due(tid) == tasks[tid].scheduled_time

\* A batch of n jobs, all for platform p, has been submitted.
BatchFor(p, n) ==
    /\ Len(tasks) = n
    /\ \A t \in TaskIds : tasks[t].platform = p /\ meta[t].index = t - 1

NoSuccess == \A p \in Platforms : GetLastUploadTime(historyFile, p) = NoTime

Floor(p) == GetNextUploadTime(historyFile, p, now)

\* C4 (as stated): a batch for one platform with no prior success: every two
\* consecutive jobs, job 0 and job 1 included, are at least stagger_delay
\* apart and none is due before the platform floor.
C4_BatchSpacing ==
    \A p \in UploadFunctions, n \in 1..(MaxBatch + 1) :
        (BatchFor(p, n) /\ NoSuccess) =>
            /\ \A t \in 1..(n - 1) : Due(t + 1) - Due(t) >= StaggerDelay
            /\ \A t \in 1..n : Due(t) >= Floor(p)

\* C4 (amended): from job 1 on consecutive jobs are at least stagger_delay
\* apart; job 1 follows job 0 by stagger_delay less the 10 s grace that job 0
\* is given; none is due before the platform floor.
C4_BatchSpacingFromJob1 ==
    \A p \in UploadFunctions, n \in 1..(MaxBatch + 1) :
        (BatchFor(p, n) /\ NoSuccess) =>
            /\ \A t \in 2..(n - 1) : Due(t + 1) - Due(t) >= StaggerDelay
            /\ n >= 2 => Due(2) - Due(1) >= StaggerDelay - Grace
            /\ n >= 2 => Due(2) - Due(1) < StaggerDelay
            /\ \A t \in 1..n : Due(t) >= Floor(p)

\* A batch of three jobs for one platform, no success in the history.
C4_Witness ==
    \E p \in UploadFunctions : BatchFor(p, 3) /\ NoSuccess /\ Len(queueFile.data) = 3

\* The jobs of the batch that schedule_upload has taken.
Taken == {t \in TaskIds : meta[t].accepted}

Formula(t) ==
    Due(t) = Max(Floor(tasks[t].platform), now + meta[t].index * StaggerDelay)

\* C5 (as stated): job i gets max(earliestEligibleTime(platform),
\* batchStart + i * staggerDelay), the due times increase in submission
\* order, and three jobs for one platform without history get t0,
\* t0 + stagger_delay, t0 + 2 * stagger_delay.
C5_StaggerFormula ==
    /\ \A t \in Taken : Formula(t)
    /\ \A t, u \in Taken : t < u => Due(t) <= Due(u)
    /\ \A p \in UploadFunctions :
          (BatchFor(p, 3) /\ NoSuccess) =>
              /\ Due(1) = now
              /\ Due(2) = now + StaggerDelay
              /\ Due(3) = now + 2 * StaggerDelay

\* C5 (amended): job i gets max(_get_next_upload_time(platform),
\* batchStart + i * staggerDelay); among the jobs of one platform the due
\* times do not decrease in submission order; three jobs for one platform
\* without history get t0 + 10 s, t0 + stagger_delay, t0 + 2 * stagger_delay.
C5_StaggerFormulaWithGrace ==
    /\ \A t \in Taken : Formula(t)
    /\ \A t, u \in Taken :
          (t < u /\ tasks[t].platform = tasks[u].platform) => Due(t) <= Due(u)
    /\ \A p \in UploadFunctions :
          (BatchFor(p, 3) /\ NoSuccess) =>
              /\ Due(1) = now + Grace
              /\ Due(2) = now + StaggerDelay
              /\ Due(3) = now + 2 * StaggerDelay

\* A batch over two platforms: job 0 is held back by the floor of its
\* platform, job 1 of the other platform is due before it, job 2 is staggered.
C5_Witness ==
    /\ Len(tasks) = 3
    /\ Taken = {1, 2, 3}
    /\ tasks[1].platform = tasks[3].platform
    /\ Due(1) = Floor(tasks[1].platform)
    /\ Due(1) > now + Grace
    /\ Due(2) < Due(1)
    /\ Due(3) = now + 2 * StaggerDelay

\* C3: after a success of platform P at time T, the next job of P that is
\* dispatched has a due time of at least T + min_upload_delay.
C3_Pacing ==
    [][\A j \in jobs :
          (j.tid \in workers' /\ j.tid \notin workers
              /\ paced[tasks[j.tid].platform] >= 0)
          => j.run_date >= paced[tasks[j.tid].platform] + MinDelay]_vars

\* The task is listed by get_queue, or get_history has a record of it, under
\* its clip_path and platform.
InQueue(t) ==
    \E i \in 1..Len(GetQueue(queueFile, None)) :
        SameUpload(GetQueue(queueFile, None)[i], tasks[t].clip, tasks[t].platform)

InHistory(t) ==
    /\ historyFile.ok
    /\ \E i \in 1..Len(historyFile.data) :
          SameUpload(historyFile.data[i], tasks[t].clip, tasks[t].platform)

\* No other task was submitted for the same clip and platform.
Alone(t) ==
    \A u \in TaskIds \ {t} :
        ~SameUpload(tasks[u], tasks[t].clip, tasks[t].platform)

\* C2: once the history holds the terminal record of a job, every later
\* step leaves it holding exactly one terminal record of that job.
C2_OneTerminalRecord ==
    [][\A t \in TaskIds :
          Cardinality(RecordsOf(historyFile, t)) = 1
          => Cardinality(RecordsOf(historyFile', t)) = 1]_vars

\* C6: whenever the process dies and is started again, the queue file is
\* readable and holds the snapshot saved last before, or the one that was
\* being saved (the last one with the new task appended).
C6_CrashConsistency ==
    [][epoch' > epoch =>
          /\ queueFile'.ok
          /\ \/ queueFile'.data = queueFile.data
             \/ /\ Len(queueFile'.data) = Len(queueFile.data) + 1
                /\ SubSeq(queueFile'.data, 1, Len(queueFile.data)) = queueFile.data]_vars

\* C7: every job that schedule_upload accepted and that was not cancelled is
\* listed in the queue or has a record in the history; stated for the jobs
\* that the scheduler still holds for their run date.
C7_NoSilentLoss ==
    \A t \in TaskIds :
        (meta[t].accepted /\ ~meta[t].cancelled /\ HasJob(t))
        => (InQueue(t) \/ InHistory(t))

\* C8: when a new process has started its scheduler, every job of an earlier
\* process that is still in the queue file and was never run is held by the
\* scheduler (only a job the scheduler holds is ever dispatched).
C8_DurableRecovery ==
    \A t \in TaskIds :
        (running /\ meta[t].epoch < epoch /\ Pending(t) /\ meta[t].calls = 0)
        => HasJob(t)

\* C9: a job submitted while the scheduler was stopped and not cancelled,
\* the only one for its clip and platform, is held by the scheduler once it
\* has been started, until it is dispatched to upload_function; no job is
\* dispatched while the scheduler is stopped.
C9_StoppedThenStarted ==
    /\ \A t \in TaskIds :
          (/\ running
           /\ meta[t].while_stopped /\ meta[t].accepted /\ ~meta[t].cancelled
           /\ meta[t].epoch = epoch /\ meta[t].stops = stops
           /\ Alone(t)
           /\ meta[t].calls = 0)
          => HasJob(t)
    /\ \A t \in TaskIds :
          (meta[t].while_stopped /\ meta[t].epoch = epoch /\ meta[t].stops = stops
              /\ ~running)
          => meta[t].calls = 0

\* C10: when the running scheduler has no job left to run and no upload in
\* flight, every job that was accepted and not cancelled, the only one for
\* its clip and platform, has a record in the history and is out of the
\* queue.
C10_AllTerminal ==
    (running /\ jobs = {} /\ workers = {}) =>
        \A t \in TaskIds :
            (meta[t].accepted /\ ~meta[t].cancelled /\ Alone(t))
            => (InHistory(t) /\ ~InQueue(t))

\* The ids under which a task is, or was, registered in scheduled_jobs.
IdsOf(t) == {j.id : j \in {k \in scheduled_jobs : k.tid = t}}

\* C11: a job is registered under one id for its whole life: a retry does
\* not register it under a new id.
C11_OneIdentity ==
    \A t \in TaskIds : Cardinality(IdsOf(t)) <= 1

\* What _execute_upload makes of the state when upload_function, called for
\* a task in flight, ends with an outcome.
Decide(t, o) == ExecuteUpload(State, t, o, now).st

Retried(st, t, retries) ==
    /\ st.historyFile = historyFile
    /\ st.tasks[t].retry_count = retries + 1
    /\ \E j \in st.jobs : j.tid = t /\ j.run_date = now + RetryDelay

Ended(st, t, status) ==
    /\ \E i \in RecordsOf(st.historyFile, t) : st.historyFile.data[i].status = status
    /\ Len(st.historyFile.data) = Len(historyFile.data) + 1
    /\ st.tasks[t] = tasks[t]
    /\ ~\E j \in st.jobs : j.tid = t

\* C12 (as stated): with attempt the number of calls of upload_function
\* made for the job: success ends the job as succeeded; a failure with
\* attempt < max_retry_attempts is retried at now + retry_delay; a failure
\* with attempt >= max_retry_attempts ends the job as failed.
C12_DecisionByAttempt ==
    \A t \in workers, o \in Outcomes :
        /\ o = "ok" => Ended(Decide(t, o), t, "success")
        /\ (o # "ok" /\ meta[t].calls < MaxRetryAttempts)
              => Retried(Decide(t, o), t, tasks[t].retry_count)
        /\ (o # "ok" /\ meta[t].calls >= MaxRetryAttempts)
              => Ended(Decide(t, o), t, "failed")

\* C12 (amended): the decision is taken on retry_count, the number of
\* retries made so far: a failure with retry_count < max_retry_attempts is
\* retried at now + retry_delay, a failure with retry_count >=
\* max_retry_attempts ends the job as failed, success ends it as succeeded.
C12_DecisionByRetryCount ==
    \A t \in workers, o \in Outcomes :
        /\ o = "ok" => Ended(Decide(t, o), t, "success")
        /\ (o # "ok" /\ tasks[t].retry_count < MaxRetryAttempts)
              => Retried(Decide(t, o), t, tasks[t].retry_count)
        /\ (o # "ok" /\ tasks[t].retry_count >= MaxRetryAttempts)
              => Ended(Decide(t, o), t, "failed")

\* upload_function is running for a job that has used all its retries, and
\* for a job that has not.
C12_Witness ==
    /\ \E t \in workers : tasks[t].retry_count = MaxRetryAttempts
    /\ \E t \in workers : tasks[t].retry_count < MaxRetryAttempts

\* The record the history holds for a task that has exactly one.
RecordOf(t) == historyFile.data[CHOOSE i \in RecordsOf(historyFile, t) : TRUE]

\* upload_function was called three times for the job and the third call
\* succeeded (a job is called again only after a failure).
ThirdCallSucceeded(t) == meta[t].calls = 3 /\ Succeeded(historyFile, t)

C14_DueTimeMonotone ==
    [][\A t \in TaskIds :
          /\ tasks'[t].scheduled_time >= tasks[t].scheduled_time
          /\ \A j \in jobs, k \in jobs' :
                (j.tid = t /\ k.tid = t) => k.run_date >= j.run_date]_vars

\* A job that failed twice waits for its second retry, due later than the
\* time of the failure.
C14_Witness ==
    \E j \in jobs :
        /\ tasks[j.tid].retry_count = 2
        /\ j.run_date = now + RetryDelay
        /\ tasks[j.tid].scheduled_time = j.run_date

\* What cancel_upload(id) would return and leave behind in this state.
Cancelled(id) == CancelUpload(State, id)

Gone(st, t) ==
    /\ ~\E i \in 1..Len(GetQueue(st.queueFile, None)) :
          GetQueue(st.queueFile, None)[i].tid = t
    /\ ~\E j \in st.scheduled_jobs : j.tid = t
    /\ ~\E j \in st.jobs : j.tid = t
    /\ st.historyFile = historyFile

\* C15: cancel_upload with an id that schedule_upload returned for a job
\* that is still pending (in the queue, held by the scheduler, not in
\* flight) returns True and leaves the job out of the queue, out of
\* scheduled_jobs and out of the scheduler, with the history as it was.
C15_CancelPending ==
    \A e \in scheduled_jobs :
        (Pending(e.tid) /\ HasJob(e.tid) /\ e.tid \notin workers)
        => (Cancelled(e.id).result /\ Gone(Cancelled(e.id).st, e.tid))

\* The ids a caller may pass: every id schedule_upload returned, and one it
\* never returned.
KnownIds == {e.id : e \in scheduled_jobs} \cup {JobId("p1", "none", 0)}

\* C16: cancel_upload with an id under which the scheduler holds no job (the
\* job is in flight or through, or the id is unknown) returns False and
\* changes nothing.
C16_CancelNotPending ==
    \A id \in KnownIds :
        (~\E j \in jobs : j.id = id)
        => Cancelled(id) = [st |-> State, result |-> FALSE]

\* Ids of a job in flight and of a job with its record in the history, both
\* still in scheduled_jobs.
C16_Witness ==
    /\ \E e \in scheduled_jobs : e.tid \in workers /\ ~HasJob(e.tid)
    /\ \E e \in scheduled_jobs :
          RecordsOf(historyFile, e.tid) # {} /\ ~HasJob(e.tid)

BadInput(task) ==
    task.platform \notin Platforms \/ task.clip = "" \/ task.clip = NoClip

\* C18: a task with an unknown platform or an empty or missing clip_path is
\* refused by schedule_upload: no job id comes back, nothing is written to
\* the queue, nothing is registered.
C18_BadInputRejected ==
    \A t \in TaskIds :
        BadInput(tasks[t]) =>
            /\ ~meta[t].accepted
            /\ ~Pending(t)
            /\ IdsOf(t) = {}
            /\ ~HasJob(t)

\* C19: whenever schedule_upload returns a job id for a new task, or
\* registers a job for it, the entry of the task is in the queue file.
C19_StorageErrorReported ==
    [][\A t \in (Len(tasks) + 1)..Len(tasks') :
          (meta'[t].accepted \/ \E j \in jobs' : j.tid = t)
          => /\ queueFile'.ok
             /\ \E i \in 1..Len(queueFile'.data) : queueFile'.data[i].tid = t]_vars

\* C20: every record in the history file is still there, unchanged, after
\* every step.
C20_HistoryAppendOnly ==
    [][/\ historyFile'.ok
       /\ Len(historyFile'.data) >= Len(historyFile.data)
       /\ \A i \in 1..Len(historyFile.data) :
             historyFile'.data[i] = historyFile.data[i]]_vars

\* How often a record occurs in a sequence.
Count(s, r) == Cardinality({i \in 1..Len(s) : s[i] = r})

Matches(r, platform, status) ==
    /\ platform # None => r.platform = platform
    /\ status # None => r.status = status

Min(a, b) == IF a <= b THEN a ELSE b

\* The answer to get_history without a limit is right: the matching records
\* of the file, each as often as it is there, most recent first.
AllMatching(res, platform, status) ==
    /\ \A r \in Records :
          Count(res, r) = IF Matches(r, platform, status)
                          THEN Count(historyFile.data, r) ELSE 0
    /\ \A i \in 1..(Len(res) - 1) : res[i].upload_time >= res[i + 1].upload_time

LastSuccess(platform) ==
    LET times == {historyFile.data[i].upload_time :
                     i \in {k \in 1..Len(historyFile.data) :
                              /\ historyFile.data[k].platform = platform
                              /\ historyFile.data[k].status = "success"}}
    IN  IF times = {} THEN NoTime ELSE CHOOSE t \in times : \A u \in times : u <= t

Limits == {NoLimit} \cup (0..(MaxRecords + 1))

\* C21 (as stated): get_history returns the matching records, most recent
\* first, cut to the first `limit` when a limit is given;
\* get_last_upload_time is the time of the most recent success.
C21_QueryHistory ==
    /\ \A p \in Platforms \cup {None}, s \in {"success", "failed", None} :
          /\ AllMatching(GetHistory(historyFile, p, s, NoLimit), p, s)
          /\ \A l \in Limits \ {NoLimit} :
                GetHistory(historyFile, p, s, l) =
                    SubSeq(GetHistory(historyFile, p, s, NoLimit), 1,
                           Min(l, Len(GetHistory(historyFile, p, s, NoLimit))))
    /\ \A p \in Platforms : GetLastUploadTime(historyFile, p) = LastSuccess(p)

\* The answer of get_queue holds the entries of the file that are for the
\* platform, each as often as it is there.
AllPending(res, platform) ==
    \A e \in Entries :
        Count(res, e) = IF platform # None /\ e.platform # platform THEN 0
                        ELSE Count(queueFile.data, e)

\* C22 (as stated): get_queue(platform) returns the entries of that platform
\* (all entries without a platform) in ascending order of scheduled_time.
C22_ListPendingByDueTime ==
    \A p \in Platforms \cup {None} :
        /\ AllPending(GetQueue(queueFile, p), p)
        /\ \A i \in 1..(Len(GetQueue(queueFile, p)) - 1) :
              GetQueue(queueFile, p)[i].scheduled_time
                  <= GetQueue(queueFile, p)[i + 1].scheduled_time

\* C22 (amended): get_queue(platform) returns the entries of that platform
\* (all entries without a platform), higher priority first and, among
\* entries of equal priority, in ascending order of scheduled_time.
C22_ListPendingByPriority ==
    \A p \in Platforms \cup {None} :
        /\ AllPending(GetQueue(queueFile, p), p)
        /\ \A i \in 1..(Len(GetQueue(queueFile, p)) - 1) :
              \/ GetQueue(queueFile, p)[i].priority
                     > GetQueue(queueFile, p)[i + 1].priority
              \/ /\ GetQueue(queueFile, p)[i].priority
                        = GetQueue(queueFile, p)[i + 1].priority
                 /\ GetQueue(queueFile, p)[i].scheduled_time
                        <= GetQueue(queueFile, p)[i + 1].scheduled_time

\* The file holds an entry of priority 0 and after it an entry of priority 1
\* that is due later; the listing has the second one first.
C22_Witness ==
    /\ Len(queueFile.data) = 2
    /\ queueFile.data[1].priority < queueFile.data[2].priority
    /\ queueFile.data[1].scheduled_time < queueFile.data[2].scheduled_time
    /\ GetQueue(queueFile, None) = <<queueFile.data[2], queueFile.data[1]>>

\* The entry that the latest add_to_queue for a task wrote.
LastEntry(file, tid) ==
    file.data[CHOOSE i \in 1..Len(file.data) :
                 /\ file.data[i].tid = tid
                 /\ \A k \in (i + 1)..Len(file.data) : file.data[k].tid # tid]

InFlightSince(tid) == tasks[tid].scheduled_time

\* C24: a call of upload_function is over (counted as a failed attempt) when
\* the execution timeout has passed since it was made, and a call of
\* shutdown() is over when the grace period has passed since it was made.
C24_BoundedExecution ==
    /\ \A tid \in workers : now <= InFlightSince(tid) + ExecutionTimeout
    /\ \A f \in local : now <= f.since + StopGrace

\* The places of the queue file that hold an entry of a task.
EntriesOf(file, tid) ==
    IF file.ok THEN {i \in 1..Len(file.data) : file.data[i].tid = tid} ELSE {}

\* C25: a job that waits for a retry, and is the only one for its clip and
\* platform, has exactly one entry in the queue file, and the entry carries
\* the job's retry_count and run date.
C25_RetryInPlace ==
    \A j \in jobs :
        tasks[j.tid].retry_count > 0 /\ Alone(j.tid) =>
            /\ Cardinality(EntriesOf(queueFile, j.tid)) = 1
            /\ \A i \in EntriesOf(queueFile, j.tid) :
                  /\ queueFile.data[i].retry_count = tasks[j.tid].retry_count
                  /\ queueFile.data[i].scheduled_time = j.run_date

\* C26: a job that has its record of success or of final failure in the
\* history has no entry in the queue file, in every state from then on.
C26_TerminalLeavesQueue ==
    \A t \in TaskIds :
        Succeeded(historyFile, t) \/ Failed(historyFile, t) =>
            EntriesOf(queueFile, t) = {}

\* The id of the job for which the pool thread of a task is calling
\* upload_function.
RunningId(tid) ==
    JobId(tasks[tid].platform, tasks[tid].clip, tasks[tid].scheduled_time)

\* C27: while upload_function runs for a job, the scheduler holds no job for
\* the same task and no job of the same id, and no other pool thread runs a
\* job of that id; so no second instance can be dispatched, a retry included.
C27_OneInstance ==
    /\ \A j \in jobs : j.tid \notin workers
    /\ \A w \in workers : \A j \in jobs : j.id # RunningId(w)
    /\ \A w \in workers : \A v \in workers \ {w} : RunningId(v) # RunningId(w)

\* Two pool threads are at work, one of them on a retry.
C27_Witness ==
    /\ Cardinality(workers) = 2
    /\ \E w \in workers : tasks[w].retry_count > 0 /\ meta[w].calls = 2

\* C28: when upload_function returns success for a task in flight,
\* _execute_upload leaves the scheduler without a job for the task: the
\* task is not dispatched again.
C28_SuccessIsFinal ==
    \A t \in workers : ~\E j \in Decide(t, "ok").jobs : j.tid = t

\* C29: a job that waits in the scheduler before and after a step (the step
\* is the completion, the final failure or the cancellation of another job,
\* or any other step) keeps its queue entries and gets no history record in
\* that step.
C29_OthersUntouched ==
    [][\A j \in jobs \cap jobs' :
          /\ Cardinality(EntriesOf(queueFile', j.tid))
                 >= Cardinality(EntriesOf(queueFile, j.tid))
          /\ RecordsOf(historyFile', j.tid) = RecordsOf(historyFile, j.tid)]_vars

\* get_scheduled_uploads(): one item for each entry of scheduled_jobs.
GetScheduledUploads ==
    {[job_id |-> j.id, clip |-> tasks[j.tid].clip,
      platform |-> tasks[j.tid].platform,
      scheduled_time |-> j.scheduled_time] : j \in scheduled_jobs}

\* An item of the listing and an entry of the queue stand for the same
\* pending upload.
Agree(item, entry) ==
    /\ SameUpload(entry, item.clip, item.platform)
    /\ entry.scheduled_time = item.scheduled_time

\* C30: while no upload function runs, get_scheduled_uploads lists the
\* uploads that the queue file holds, with their scheduled times, and no
\* others; stated for tasks that differ in clip or platform.
C30_RegistryAgreesWithQueue ==
    (workers = {} /\ \A t \in TaskIds : Alone(t)) =>
        /\ \A item \in GetScheduledUploads :
              \E i \in 1..Len(GetQueue(queueFile, None)) :
                  Agree(item, GetQueue(queueFile, None)[i])
        /\ \A i \in 1..Len(GetQueue(queueFile, None)) :
              \E item \in GetScheduledUploads :
                  Agree(item, GetQueue(queueFile, None)[i])

====
